---- MODULE Spec2Model ----
(***************************************************************************)
(* State-machine model of the business-directory scraper.                  *)
(*                                                                         *)
(*   src/index.js          POST /scrape with the resilient fetch strategy  *)
(*                         (3 lightweight GETs, then a browser session),   *)
(*                         one timestamped CSV per run.                    *)
(*   src/unnamed/part_001  POST /scrape and POST /scrape-category with a   *)
(*                         persistent CSV per dataset (load, dedup, merge, *)
(*                         rewrite).                                       *)
(*   src/unnamed/part_002  POST /scrape with the persistent CSV            *)
(*                         all_businesses.csv, dedup on the name alone.    *)
(*                                                                         *)
(* One action models one handler segment between two suspension points     *)
(* (await) of the JavaScript code: everything the code does synchronously  *)
(* is inside a single action.                                              *)
(***************************************************************************)
EXTENDS Integers, Sequences, FiniteSets, TLC

VARIABLES
  server,       \* the program that is running: "index.js", "part_001" or "part_002"
  program,      \* the handler serving the current request
  pc,           \* position of the handler: the await it is suspended at
  req,          \* the request body {baseUrl, startPage, endPage}
  res,          \* the response sent (status 0: none yet)
  page,         \* loop variable of the page loop
  attempt,      \* scrapePage's attempt parameter (index.js)
  allBusinesses,\* records accepted by the current run
  errors,       \* page-level errors of the current run
  pending,      \* scrapeWithBrowser: what its try/catch decided, held across finally
  sessions,     \* browser sessions launched and not yet closed
  wait,         \* the delay (ms) the handler is sleeping for, 0 when not sleeping
  lwErr,        \* the error caught from the last failed lightweight GET
  issued,       \* history: pages of the current run a fetch was issued for
  outcome,      \* history: page -> "ok" | "failed", how its fetch ended in this run
  lwCount,      \* history: lightweight GETs issued by the scrapePage call in progress
  brCount,      \* history: browser sessions started by the scrapePage call in progress
  reads,        \* history: loads of the dataset done for the current request
  writes,       \* history: writes of an output file done for the current request
  site,         \* the directory site: page -> listings served so far
  files,        \* output directory: file name -> CSV content
  persisted,    \* history: file name -> the records its last write was given
  previousBusinesses, \* what loadPreviousBusinesses returned for the current run
  previousBusinessNames, \* the dedup key set of the current run
  clock,        \* number of requests accepted so far (new Date() advances with it)
  history,      \* the last completed run of a persisting scraper, if any
  csvContent,   \* what loadPreviousBusinesses read from the dataset file, if it was there
  other         \* the other request in flight: its handler's variables while it waits

vars == <<server, program, pc, req, res, page, attempt, allBusinesses, errors, pending,
          sessions, wait, lwErr, issued, outcome, lwCount, brCount, reads, writes,
          site, files, persisted, previousBusinesses, previousBusinessNames, clock,
          history, csvContent, other>>

(***************************************************************************)
(* Bounds of the model.                                                    *)
(***************************************************************************)
MaxPage == 2        \* page numbers of a request range over 0..MaxPage
MaxListings == 2    \* listing nodes on one page
MaxRuns == 2        \* requests per behaviour

(***************************************************************************)
(* Values.                                                                 *)
(***************************************************************************)
None == <<>>                       \* undefined / missing body field
Some(v) == <<v>>
Val(o) == o[1]

Min(a, b) == IF a < b THEN a ELSE b

RECURSIVE Pow2(_)
Pow2(n) == IF n = 0 THEN 1 ELSE 2 * Pow2(n - 1)

Range(s) == {s[i] : i \in DOMAIN s}

SeqsUpTo(S, n) == UNION {[1..k -> S] : k \in 0..n}

(***************************************************************************)
(* The site.  A listing node is described by what the selectors of the     *)
(* extractors read from it.  logo: "none" (no .logo.lazy-img element),     *)
(* "data-bg" (element with a data-bg attribute), "style" (element with a   *)
(* background-image style), "bare" (element with neither).                 *)
(***************************************************************************)
Node(cls, n, a, p, logo, badge) ==
  [classes |-> cls, name |-> n, address |-> a, phone |-> p, logo |-> logo,
   badge |-> badge]

NFull    == Node({"with_img", "g_0"}, "A", "x", "p", "data-bg", TRUE)
NAddr2   == Node({"with_img", "g_0"}, "A", "y", "", "none", FALSE)
NEmpty   == Node({"with_img", "g_0"}, "B", "", "", "none", FALSE)
NNoName  == Node({"with_img", "g_0"}, "", "x", "p", "none", TRUE)
NBare    == Node({"with_img", "g_0"}, "C", "y", "p", "bare", FALSE)

\* Error messages.  The lightweight transport and the browser fail with
\* different messages.
AxiosErrors == {"Request failed with status code 404", "timeout exceeded"}
LaunchError == "Failed to launch the browser process"
NavigationError == "Navigation timeout of 30000 ms exceeded"
TypeErrorMsg == "Cannot read properties of undefined (reading 'replace')"
ParseErrorMsg == "parse is not a function"


(***************************************************************************)
(* Request bodies.  The three parameters are JSON values: a string and two *)
(* integers, each possibly missing.                                        *)
(***************************************************************************)
LocationUrl == "https://www.businesslist.com.ng/location/lagos"
CategoryUrl == "https://www.businesslist.com.ng/category/hotels"
CityUrl     == "https://www.businesslist.com.ng/category/others/1/city:lagos"

Optional(S) == {None} \cup {Some(v) : v \in S}

Bodies(urls) ==
  [baseUrl : Optional(urls \cup {""}),
   startPage : Optional(0..MaxPage),
   endPage : Optional(0..MaxPage)]

\* if (!baseUrl || startPage === undefined || endPage === undefined)
MissingParameters(body) ==
  \/ body.baseUrl = None
  \/ Val(body.baseUrl) = ""
  \/ body.startPage = None
  \/ body.endPage = None

\* Mutant: the range test without the comparison of the two ends.
InvalidPageRangeEndsOnly(body) ==
  \/ Val(body.startPage) < 1
  \/ Val(body.endPage) < 1

\* if (startPage < 1 || endPage < 1 || startPage > endPage)
InvalidPageRange(body) ==
  \/ Val(body.startPage) < 1
  \/ Val(body.endPage) < 1
  \/ Val(body.startPage) > Val(body.endPage)

startPage == Val(req.startPage)
endPage == Val(req.endPage)

(***************************************************************************)
(* Responses.                                                              *)
(***************************************************************************)
NoResponse == [status |-> 0]
BadRequest(msg) == [status |-> 400, error |-> msg]
ServerError(msg) == [status |-> 500, error |-> msg]
Success(result) == [status |-> 200, result |-> result]

NoBusinessesMsg == "No businesses were scraped. All attempts failed."
WriteErrorMsg == "EACCES: permission denied"

\* Mutant: whatever the scrape function throws is reported as an empty run.
RunErrorAsEmpty(msg) == ServerError(NoBusinessesMsg)

\* catch (error) { res.status(500).json({ success: false, error: error.message, ... }) }
RunError(msg) == ServerError(msg)

(***************************************************************************)
(* CSV.  stringify(records, {header: true, columns}) writes one header row *)
(* and one row per record; each cell is the record's value under the       *)
(* column's key, cast to text: a string as it is, a number in decimal, a   *)
(* boolean as "1" (true) or "" (false), null and undefined as "".          *)
(***************************************************************************)
Null == "<null>"
Undefined == "<undefined>"

Column(k, h) == [key |-> k, header |-> h]

IndexColumns ==
  << Column("name", "Business Name"), Column("address", "Address"),
     Column("phone", "Phone Number"), Column("imageUrl", "Image URL"),
     Column("verified", "Verified"), Column("sourcePage", "Page Number") >>

Get(record, key) == IF key \in DOMAIN record THEN record[key] ELSE Undefined

\* The records the scrapers build hold a boolean under "verified", a number
\* under "sourcePage" and strings (or null) under every other key.
CastCell(key, v) ==
  IF key = "verified" THEN (IF v THEN "1" ELSE "")
  ELSE IF key = "sourcePage" THEN ToString(v)
  ELSE IF v \in {Null, Undefined} THEN ""
  ELSE v

stringify(records, columns) ==
  [header |-> [c \in DOMAIN columns |-> columns[c].header],
   rows |-> [r \in DOMAIN records |->
               [c \in DOMAIN columns |->
                  CastCell(columns[c].key, Get(records[r], columns[c].key))]]]
(***************************************************************************)
(* The site serves a page's listings; once a page has been served its      *)
(* content stays what it was (the directory is static while it is          *)
(* scraped).  contents is the set of markups a page can have.              *)
(***************************************************************************)
Served(p, contents) == IF p \in DOMAIN site THEN {site[p]} ELSE contents

Serve(p, html) == IF p \in DOMAIN site THEN site ELSE (p :> html) @@ site

(***************************************************************************)
(* src/index.js: extraction of one page (lines 170-202).                   *)
(***************************************************************************)
Thrown == "<thrown>"

\* imageElement.attr('data-bg') ||
\*   imageElement.css('background-image').replace(/url\(['"]?(.*?)['"]?\)/i, '$1')
\* An element with neither attribute nor style makes css() return undefined,
\* and .replace on it throws a TypeError.
imageUrlOf(el) ==
  IF el.logo = "none" THEN ""
  ELSE IF el.logo = "data-bg" THEN "/img/a.png"
  ELSE IF el.logo = "style" THEN "http://cdn/b.png"
  ELSE Thrown

\* new URL(imageUrl, 'https://www.businesslist.com.ng').toString()
ToAbsolute(u) ==
  IF u = "/img/a.png" THEN "https://www.businesslist.com.ng/img/a.png" ELSE u

IndexBusiness(el, p) ==
  [name |-> el.name, address |-> el.address, phone |-> el.phone,
   imageUrl |-> IF imageUrlOf(el) = "" THEN Null ELSE ToAbsolute(imageUrlOf(el)),
   verified |-> el.badge, sourcePage |-> p]

\* $('.company.with_img').each(...): the nodes are visited in document order;
\* an exception in the callback leaves the loop with the records pushed so far.
RECURSIVE EachIndex(_, _, _, _)
EachIndex(html, i, p, acc) ==
  IF i > Len(html) THEN [businesses |-> acc, thrown |-> ""]
  ELSE IF "with_img" \notin html[i].classes THEN EachIndex(html, i + 1, p, acc)
  ELSE IF "company_ad" \in html[i].classes THEN EachIndex(html, i + 1, p, acc)
  ELSE IF imageUrlOf(html[i]) = Thrown THEN [businesses |-> acc, thrown |-> TypeErrorMsg]
  ELSE EachIndex(html, i + 1, p, Append(acc, IndexBusiness(html[i], p)))

\* const normalizedBaseUrl = baseUrl.endsWith('/') ? baseUrl : `${baseUrl}/`;
\* const url = `${normalizedBaseUrl}${page}`;   (no base URL of the model ends in /)
normalizedBaseUrl(u) == u \o "/"
PageUrl(u, p) == normalizedBaseUrl(u) \o ToString(p)

ScrapeError(p, msg) == [page |-> p, url |-> PageUrl(Val(req.baseUrl), p), error |-> msg]
(***************************************************************************)
(* src/index.js: the run.                                                  *)
(***************************************************************************)
MaxLightweightAttempts == 3
BackoffBase == 1000
BackoffCap == 30000
ErrorDelay == 15000
\* Math.floor(Math.random() * 5000) + 5000: the two ends of 5000..9999
SuccessDelays == {5000, 9999}

\* Mutant: the fallback test off by one (attempt > 3).
FallsBackAfterFourth(a) == a > MaxLightweightAttempts

\* if (attempt >= 3) return await scrapeWithBrowser(url);
FallsBackToBrowser(a) == a >= MaxLightweightAttempts

\* Mutant: a backoff that grows by the base for each attempt.
LinearDelay(a) == Min(BackoffBase * a, BackoffCap)

\* const delay = Math.min(1000 * Math.pow(2, attempt), 30000);
BackoffDelay(a) == Min(BackoffBase * Pow2(a), BackoffCap)

\* Mutant: browser.close() only after a successful capture (no finally).
AfterCloseOnSuccessOnly(open) == IF pending.kind = "return" THEN open - 1 ELSE open

\* finally { if (browser) await browser.close(); }   with a session launched
AfterClose(open) == open - 1

\* Mutant: scrapePage rethrows the error of its lightweight attempt.
PropagatedLightweight(browserError) == lwErr

\* The error scrapePage lets through to the page loop when the browser
\* fallback failed with browserError: its catch block returns
\* await scrapeWithBrowser(url), so the fallback's error replaces the caught one.
Propagated(browserError) == browserError

IndexFileName == "businesses_" \o ToString(clock) \o ".csv"

IndexStats ==
  [totalPagesAttempted |-> endPage - startPage + 1,
   successfulPages |-> (endPage - startPage + 1) - Len(errors),
   failedPages |-> Len(errors),
   businessesScraped |-> Len(allBusinesses),
   csvFile |-> IndexFileName]

\* Locals of a handler that starts: nothing accepted, nothing failed yet.
\* The variables of a handler no request has reached yet.
Waiting ==
  [program |-> "none", pc |-> "idle",
   req |-> [baseUrl |-> None, startPage |-> None, endPage |-> None],
   res |-> NoResponse, page |-> 0, attempt |-> 0, allBusinesses |-> <<>>,
   errors |-> <<>>, pending |-> None, wait |-> 0, lwErr |-> "", issued |-> {},
   outcome |-> <<>>, lwCount |-> 0, brCount |-> 0, reads |-> 0, writes |-> 0,
   previousBusinesses |-> <<>>, previousBusinessNames |-> {}, csvContent |-> None]

FreshRun ==
  /\ allBusinesses' = <<>>
  /\ errors' = <<>>
  /\ pending' = None
  /\ wait' = 0
  /\ lwErr' = ""
  /\ outcome' = <<>>
  /\ writes' = 0

\* No dataset is loaded.
NoLoad ==
  /\ reads' = 0
  /\ csvContent' = None
  /\ previousBusinesses' = <<>>
  /\ previousBusinessNames' = {}

\* The endpoint has decided: it answers r at once and the server is idle
\* again, or (no answer yet) it calls the scrape function.
Answer(r) ==
  /\ res' = r
  /\ pc' = IF r = NoResponse THEN "accepted" ELSE "idle"
  /\ page' = 0
  /\ attempt' = 0
  /\ issued' = {}
  /\ lwCount' = 0
  /\ brCount' = 0

\* scrapePage(url, page): the first lightweight GET for page p is issued.
IssueGet(p) ==
  /\ page' = p
  /\ attempt' = 1
  /\ pc' = "get"
  /\ lwCount' = 1
  /\ brCount' = 0

\* app.post('/scrape') of index.js, lines 255-274.  Every run of index.js
\* writes a file of its own, so one run per behaviour is modelled, after any
\* number of rejected requests.
PostScrape(body) ==
  /\ server = "index.js"
  /\ pc = "idle"
  /\ program' = "index"
  /\ req' = body
  /\ FreshRun
  /\ NoLoad
  /\ IF MissingParameters(body) THEN
       Answer(BadRequest("Missing parameters")) /\ clock' = clock
     ELSE IF InvalidPageRange(body) THEN
       Answer(BadRequest("Invalid page range")) /\ clock' = clock
     ELSE
       Answer(NoResponse) /\ clock' = clock + 1
  /\ UNCHANGED <<other, server, sessions, site, files, persisted, history>>

\* scrapePage is over: its frames (attempt, the caught error) are gone.
CallOver(how) ==
  /\ outcome' = (page :> how) @@ outcome
  /\ attempt' = 0
  /\ lwErr' = ""
  /\ lwCount' = 0
  /\ brCount' = 0

\* Lines 170-214 for the markup html of the current page.
IndexProcess(html) ==
  LET r == EachIndex(html, 1, page, allBusinesses) IN
  /\ CallOver("ok")
  /\ allBusinesses' = r.businesses
  /\ IF r.thrown = "" THEN
       /\ errors' = errors
       /\ pc' = "delay"
       /\ \E d \in SuccessDelays : wait' = d
     ELSE
       /\ errors' = Append(errors, ScrapeError(page, r.thrown))
       /\ pc' = "errdelay"
       /\ wait' = ErrorDelay

\* Mutant: the catch block of the page loop records nothing.
IndexPageFailedSilently(msg) ==
  /\ CallOver("failed")
  /\ errors' = errors
  /\ pc' = "errdelay"
  /\ wait' = ErrorDelay
  /\ UNCHANGED allBusinesses

\* Mutant: the catch block of the page loop starts the page again.
IndexPageFailedRetrying(msg) ==
  /\ outcome' = outcome
  /\ attempt' = 1
  /\ lwErr' = ""
  /\ lwCount' = 1
  /\ brCount' = 0
  /\ errors' = errors
  /\ pc' = "get"
  /\ wait' = 0
  /\ UNCHANGED allBusinesses

\* Mutant: the catch block of the page loop does not sleep.
IndexPageFailedNoWait(msg) ==
  /\ CallOver("failed")
  /\ errors' = Append(errors, ScrapeError(page, msg))
  /\ pc' = "errdelay"
  /\ wait' = 0
  /\ UNCHANGED allBusinesses

\* Lines 208-213 when scrapePage threw msg.
IndexPageFailed(msg) ==
  /\ CallOver("failed")
  /\ errors' = Append(errors, ScrapeError(page, msg))
  /\ pc' = "errdelay"
  /\ wait' = ErrorDelay
  /\ UNCHANGED allBusinesses

\* axios.get resolves (line 142): scrapePage returns the markup.
IndexGetOk(contents) ==
  /\ program = "index" /\ pc = "get"
  /\ \E html \in Served(page, contents) :
       /\ site' = Serve(page, html)
       /\ IndexProcess(html)
  /\ UNCHANGED <<other, csvContent, server, program, req, res, page, pending, sessions, issued, reads, writes,
                 files, persisted, previousBusinesses, previousBusinessNames, clock,
                 history>>

\* axios.get rejects (lines 143-154): back off, or start the browser.
IndexGetFail(err) ==
  /\ program = "index" /\ pc = "get"
  /\ lwErr' = err
  /\ IF FallsBackToBrowser(attempt) THEN
       /\ pc' = "launch"
       /\ brCount' = brCount + 1
       /\ wait' = 0
     ELSE
       /\ pc' = "backoff"
       /\ wait' = BackoffDelay(attempt)
       /\ UNCHANGED brCount
  /\ UNCHANGED <<other, csvContent, server, program, req, res, page, attempt, allBusinesses, errors, pending,
                 sessions, issued, outcome, lwCount, reads, writes, site, files,
                 persisted, previousBusinesses, previousBusinessNames, clock, history>>

\* The backoff timer fires (line 155): scrapePage(url, pageNumber, attempt + 1).
IndexRetry ==
  /\ program = "index" /\ pc = "backoff"
  /\ attempt' = attempt + 1
  /\ lwCount' = lwCount + 1
  /\ pc' = "get"
  /\ wait' = 0
  /\ UNCHANGED <<other, csvContent, server, program, req, res, page, allBusinesses, errors, pending, sessions,
                 lwErr, issued, outcome, brCount, reads, writes, site, files,
                 persisted, previousBusinesses, previousBusinessNames, clock, history>>

\* puppeteer.launch resolves (line 77).
LaunchOk ==
  /\ program = "index" /\ pc = "launch"
  /\ sessions' = sessions + 1
  /\ pc' = "render"
  /\ UNCHANGED <<other, csvContent, server, program, req, res, page, attempt, allBusinesses, errors, pending,
                 wait, lwErr, issued, outcome, lwCount, brCount, reads, writes, site,
                 files, persisted, previousBusinesses, previousBusinessNames, clock,
                 history>>

\* puppeteer.launch rejects: browser is undefined, finally closes nothing and
\* the error reaches the page loop.
LaunchFail ==
  /\ program = "index" /\ pc = "launch"
  /\ IndexPageFailed(Propagated(LaunchError))
  /\ UNCHANGED <<other, csvContent, server, program, req, res, page, pending, sessions, issued, reads, writes,
                 site, files, persisted, previousBusinesses, previousBusinessNames,
                 clock, history>>

\* Lines 90-118 all resolve: return content, and finally awaits browser.close().
RenderOk(contents) ==
  /\ program = "index" /\ pc = "render"
  /\ \E html \in Served(page, contents) :
       /\ site' = Serve(page, html)
       /\ pending' = [kind |-> "return", value |-> html]
  /\ pc' = "closing"
  /\ UNCHANGED <<other, csvContent, server, program, req, res, page, attempt, allBusinesses, errors, sessions,
                 wait, lwErr, issued, outcome, lwCount, brCount, reads, writes, files,
                 persisted, previousBusinesses, previousBusinessNames, clock, history>>

\* One of lines 90-117 rejects: catch rethrows, and finally awaits browser.close().
RenderFail ==
  /\ program = "index" /\ pc = "render"
  /\ pending' = [kind |-> "throw", value |-> NavigationError]
  /\ pc' = "closing"
  /\ UNCHANGED <<other, csvContent, server, program, req, res, page, attempt, allBusinesses, errors, sessions,
                 wait, lwErr, issued, outcome, lwCount, brCount, reads, writes, site,
                 files, persisted, previousBusinesses, previousBusinessNames, clock,
                 history>>

\* browser.close() resolves: scrapeWithBrowser returns or throws what was pending.
CloseDone ==
  /\ program = "index" /\ pc = "closing"
  /\ sessions' = AfterClose(sessions)
  /\ pending' = None
  /\ IF pending.kind = "return" THEN
       IndexProcess(pending.value)
     ELSE
       IndexPageFailed(Propagated(pending.value))
  /\ UNCHANGED <<other, csvContent, server, program, req, res, page, issued, reads, writes, site, files,
                 persisted, previousBusinesses, previousBusinessNames, clock, history>>

\* Lines 217-251 and the endpoint's answer (lines 275-286).  written: whether
\* fs.writeFileSync succeeds.
IndexFinish(written) ==
  /\ pc' = "done"
  /\ IF Len(allBusinesses) > 0 THEN
       IF written THEN
         /\ files' = (IndexFileName :> stringify(allBusinesses, IndexColumns)) @@ files
         /\ persisted' = (IndexFileName :> allBusinesses) @@ persisted
         /\ writes' = writes + 1
         /\ res' = Success([businesses |-> allBusinesses, errors |-> errors,
                            stats |-> IndexStats])
       ELSE
         /\ res' = RunError(WriteErrorMsg)
         /\ UNCHANGED <<files, persisted, writes>>
     ELSE
       /\ res' = RunError(NoBusinessesMsg)
       /\ UNCHANGED <<files, persisted, writes>>

\* The test of the page loop (line 164) for page p: the GET for p is issued,
\* or the range is over and the run ends.
IndexLoop(p) ==
  IF p <= endPage THEN
    /\ IssueGet(p)
    /\ issued' = issued \cup {p}
    /\ UNCHANGED <<res, files, persisted, writes>>
  ELSE
    /\ \E written \in BOOLEAN : IndexFinish(written)
    /\ UNCHANGED <<page, attempt, issued, lwCount, brCount>>

\* scrapePages is called (lines 159-169).
IndexBegin ==
  /\ program = "index" /\ pc = "accepted"
  /\ IndexLoop(startPage)
  /\ UNCHANGED <<other, csvContent, server, program, req, allBusinesses, errors, pending, sessions, wait,
                 lwErr, outcome, reads, site, previousBusinesses,
                 previousBusinessNames, clock, history>>

\* for (...; page++)
AfterPage(p) == p + 1

\* The delay after a page is over (line 206 or 213): the loop goes on.
IndexDelayDone ==
  /\ program = "index" /\ pc \in {"delay", "errdelay"}
  /\ wait' = 0
  /\ IndexLoop(AfterPage(page))
  /\ UNCHANGED <<other, csvContent, server, program, req, allBusinesses, errors, pending, sessions, lwErr,
                 outcome, reads, site, previousBusinesses, previousBusinessNames,
                 clock, history>>

(***************************************************************************)
(* Spec: the server of src/index.js.                                       *)
(***************************************************************************)
IndexNodes == {NFull, NEmpty, NBare}
IndexPages == SeqsUpTo(IndexNodes, MaxListings)

Init ==
  /\ server = "index.js"
  /\ program = "index"
  /\ pc = "idle"
  /\ req = [baseUrl |-> None, startPage |-> None, endPage |-> None]
  /\ res = NoResponse
  /\ page = 0
  /\ attempt = 0
  /\ allBusinesses = <<>>
  /\ errors = <<>>
  /\ pending = None
  /\ sessions = 0
  /\ wait = 0
  /\ lwErr = ""
  /\ issued = {}
  /\ outcome = <<>>
  /\ lwCount = 0
  /\ brCount = 0
  /\ reads = 0
  /\ writes = 0
  /\ site = <<>>
  /\ files = <<>>
  /\ persisted = <<>>
  /\ previousBusinesses = <<>>
  /\ previousBusinessNames = {}
  /\ clock = 0
  /\ history = <<>>
  /\ csvContent = None
  /\ other = Waiting

Next ==
  \/ \E body \in Bodies({LocationUrl}) : PostScrape(body)
  \/ IndexBegin
  \/ IndexGetOk(IndexPages)
  \/ \E err \in AxiosErrors : IndexGetFail(err)
  \/ IndexRetry
  \/ LaunchOk
  \/ LaunchFail
  \/ RenderOk(IndexPages)
  \/ RenderFail
  \/ CloseDone
  \/ IndexDelayDone

Spec == Init /\ [][Next]_vars
(***************************************************************************)
(* Properties of src/index.js, checked under Spec.                         *)
(***************************************************************************)
FetchFailed(k) == k \in DOMAIN outcome /\ outcome[k] = "failed"
FetchOk(k) == k \in DOMAIN outcome /\ outcome[k] = "ok"
ErrorsFor(k) == {i \in DOMAIN errors : errors[i].page = k}
InBrowser == pc \in {"launch", "render", "closing"}
BrowserErrors == {LaunchError, NavigationError}

\* C5: page-failure isolation in scrapePages of index.js.  When the run is
\* over, every page k of the range whose fetch failed (three lightweight
\* attempts and the browser fallback) is followed by a fetch of every page
\* k+1..endPage, and the errors list, which is the one returned with a result,
\* holds exactly one entry whose page is k.
C5_PageFailureIsolation ==
  (program = "index" /\ pc = "done") =>
    \A k \in startPage..endPage :
      FetchFailed(k) =>
        /\ \A j \in (k + 1)..endPage : j \in issued
        /\ Cardinality(ErrorsFor(k)) = 1
        /\ (res.status = 200 => res.result.errors = errors)

\* A result is returned although the first page of a two-page range failed.
C5_Witness ==
  /\ program = "index" /\ pc = "done" /\ res.status = 200
  /\ startPage < endPage
  /\ FetchFailed(startPage)
  /\ FetchOk(endPage)

\* C7: one call of scrapePage issues at most 3 lightweight GETs; a further GET
\* is issued only after the previous one failed and its backoff elapsed; a GET
\* that succeeds ends the call (no further GET, no browser session); the
\* browser fallback starts only when the 3rd GET has failed, and at most once.
C7_State ==
  program = "index" =>
    /\ lwCount <= MaxLightweightAttempts
    /\ brCount <= 1
    /\ InBrowser <=> brCount = 1
    /\ brCount = 1 => (lwCount = MaxLightweightAttempts /\ lwErr # "")

C7_Step ==
  program = "index" =>
    /\ (lwCount' > lwCount /\ lwCount > 0) => (pc = "backoff" /\ lwErr # "")
    /\ brCount' > brCount =>
         (pc = "get" /\ lwCount = MaxLightweightAttempts /\ lwErr' # "")
    /\ (pc = "get" /\ lwErr' = "") =>
         (FetchOk(page)' /\ lwCount' = 0 /\ brCount' = 0 /\ pc' \in {"delay", "errdelay"})

C7_FetchEscalation == []C7_State /\ [][C7_Step]_vars

\* The browser fallback is running after three failed lightweight attempts.
C7_Witness ==
  program = "index" /\ pc = "render" /\ lwCount = 3 /\ brCount = 1 /\ attempt = 3

\* C8: scrapePage fails exactly when its 3 lightweight attempts failed and the
\* browser fallback failed; the error it lets through is the browser
\* fallback's error, not a lightweight attempt's; once the call is over (the
\* page is done or failed) no request is issued for that page.
C8_Step ==
  program = "index" =>
    /\ (~FetchFailed(page) /\ FetchFailed(page)') =>
         /\ lwCount = MaxLightweightAttempts /\ brCount = 1
         /\ \/ pc = "launch"
            \/ pc = "closing" /\ pending.kind = "throw"
         /\ errors' = Append(errors, errors'[Len(errors')])
         /\ errors'[Len(errors')].page = page
         /\ errors'[Len(errors')].error =
              (IF pc = "launch" THEN LaunchError ELSE pending.value)
         /\ errors'[Len(errors')].error \in BrowserErrors
    /\ (pc = "closing" /\ pending.kind = "throw") => FetchFailed(page)'
    /\ (pc = "launch" /\ sessions' = sessions) => FetchFailed(page)'
    /\ (lwCount' > lwCount \/ brCount' > brCount) =>
         (page' \notin DOMAIN outcome /\ page' \notin DOMAIN outcome')

C8_FailureOnlyAfterFallback == [][C8_Step]_vars

\* The fallback's navigation failed and the page is recorded as failed.
C8_Witness ==
  /\ program = "index" /\ pc = "errdelay"
  /\ FetchFailed(page)
  /\ errors[Len(errors)].error = NavigationError

\* C9: every browser session scrapeWithBrowser launched is closed before it
\* returns or throws; when no scrapeWithBrowser call is in progress no session
\* is open.
C9_SessionsClosed ==
  /\ sessions \in {0, 1}
  /\ sessions = 1 => pc \in {"render", "closing"}

\* scrapeWithBrowser has thrown a navigation error after launching a session.
C9_Witness ==
  /\ program = "index" /\ pc = "errdelay" /\ sessions = 0
  /\ FetchFailed(page)
  /\ errors[Len(errors)].error = NavigationError
  /\ brCount = 0
(***************************************************************************)
(* src/unnamed/part_001 and part_002: the persisting scrapers.             *)
(***************************************************************************)
PERSISTENT_CSV_FILENAME == "all_businesses.csv"
PageDelay == 2000
ConsecutiveErrorWindow == 5
NotFound == "Request failed with status code 404"

\* baseUrl.includes('/category/'), baseUrl.includes('city:'),
\* baseUrl.match(/category\/([^\/]+)/i) for the base URLs of the model
includesCategory(u) == u \in {CategoryUrl, CityUrl}
includesCity(u) == u = CityUrl
categoryNameOf(u) ==
  IF u = CategoryUrl THEN "hotels"
  ELSE IF u = CityUrl THEN "others"
  ELSE "unknown_category"

\* part_001 lines 174-181 and 193-200
CategoryPageUrl(u, p) ==
  IF includesCity(u)
  THEN "https://www.businesslist.com.ng/category/others" \o "/" \o ToString(p)
       \o "/city:lagos"
  ELSE normalizedBaseUrl(u) \o ToString(p)

\* Mutant: every run uses the default dataset file.
SharedFile(prog, u) == PERSISTENT_CSV_FILENAME

\* const csvFilename = `${categoryName}.csv`;  (part_001 line 169)
FileOf(prog, u) ==
  IF prog = "category" THEN categoryNameOf(u) \o ".csv" ELSE PERSISTENT_CSV_FILENAME

baseUrl == Val(req.baseUrl)
categoryName == categoryNameOf(baseUrl)
csvFilename == FileOf(program, baseUrl)

\* new Date().toISOString(): the time of the run
Now == "T" \o ToString(clock)

CategoryColumns ==
  << Column("name", "Business Name"), Column("address", "Address"),
     Column("phone", "Phone Number"), Column("imageUrl", "Image URL"),
     Column("verified", "Verified"), Column("category", "Category"),
     Column("sourcePage", "Page Number"), Column("dateScraped", "Date Scraped") >>

PersistColumns ==
  << Column("name", "Business Name"), Column("address", "Address"),
     Column("phone", "Phone Number"), Column("imageUrl", "Image URL"),
     Column("verified", "Verified"), Column("sourcePage", "Page Number"),
     Column("dateScraped", "Date Scraped") >>

ColumnsOf(prog) == IF prog = "category" THEN CategoryColumns ELSE PersistColumns

\* const { stringify, parse } = require('csv-stringify/sync');
\* csv-stringify/sync exports stringify and nothing else: parse is undefined.
SyncExports == {"stringify"}

\* loadPreviousBusinesses (part_001 344-371, part_002 152-175).  With the file
\* there, the call of parse throws "parse is not a function" inside the try
\* block, and the catch block returns [].
\* Were it a parser, { columns: true } would key every record by the header
\* row, and no column is called 'verified'.
parse(text) ==
  IF "parse" \notin SyncExports THEN Thrown
  ELSE [r \in DOMAIN text.rows |->
          [h \in Range(text.header) |->
             text.rows[r][CHOOSE c \in DOMAIN text.header :
                                  text.header[c] = h]]]

\* Mutant: loadPreviousBusinesses without its try block.
Uncaught(thrown) == thrown

\* catch (error) { log(...); return []; }  (part_001 366-369, part_002 171-174)
ReturnsEmpty(thrown) == <<>>

loadPreviousBusinesses(filename) ==
  IF filename \notin DOMAIN files THEN <<>>
  ELSE IF parse(files[filename]) = Thrown THEN ReturnsEmpty(Thrown)
  ELSE parse(files[filename])

\* `${name}|${address}`
duplicateKey(name, address) == name \o "|" \o address

\* The key the duplicate check looks up: previousBusinessNames.has(duplicateKey)
\* in part_001 (lines 76-77 and 226-227), previousBusinessNames.has(name) in
\* part_002 (line 63).
CheckedKey(prog, name, address) ==
  IF prog = "pages2" THEN name ELSE duplicateKey(name, address)

\* Mutant: the acceptance test without its second half.
AcceptsAnyNamed(b) == b.name # ""

\* if (name && (address || phone))
Accepts(b) == b.name # "" /\ (b.address # "" \/ b.phone # "")

\* Mutant: the key of an accepted record is not added to the set.
Forgotten(keys, k) == keys

\* previousBusinessNames.add(duplicateKey)
Remembered(keys, k) == keys \cup {k}

\* Mutant: a new record goes to the front of the list.
Unshifted(acc, b) == <<b>> \o acc

\* allBusinesses.push(business)
Pushed(acc, b) == Append(acc, b)

\* part_001 lines 236-254
CategoryImageUrl(el) ==
  IF "with_img" \in el.classes /\ el.logo = "data-bg"
  THEN "https://www.businesslist.com.ng" \o "/img/a.png"
  ELSE ""

CategoryBusiness(el, p) ==
  [name |-> el.name, address |-> el.address, phone |-> el.phone,
   imageUrl |-> CategoryImageUrl(el), verified |-> el.badge,
   category |-> categoryName, sourcePage |-> p, dateScraped |-> Now]

\* scrapeCategoryPages, lines 216-281: $('.company.g_0, .company.with_img.g_0')
RECURSIVE EachCategory(_, _, _, _, _)
EachCategory(html, i, p, acc, keys) ==
  IF i > Len(html) THEN [businesses |-> acc, keys |-> keys]
  ELSE IF "g_0" \notin html[i].classes THEN EachCategory(html, i + 1, p, acc, keys)
  ELSE IF "company_ad" \in html[i].classes THEN EachCategory(html, i + 1, p, acc, keys)
  ELSE IF duplicateKey(html[i].name, html[i].address) \in keys
    THEN EachCategory(html, i + 1, p, acc, keys)
  ELSE IF Accepts(CategoryBusiness(html[i], p))
    THEN EachCategory(html, i + 1, p, Pushed(acc, CategoryBusiness(html[i], p)),
                      Remembered(keys, duplicateKey(html[i].name, html[i].address)))
  ELSE EachCategory(html, i + 1, p, acc, keys)

\* scrapePages of part_001, lines 67-108: the record literal reads categoryName,
\* which is not defined in this function, so building it throws a
\* ReferenceError that the item's catch block logs; nothing is pushed.
RECURSIVE EachPages1(_, _, _, _, _)
EachPages1(html, i, p, acc, keys) ==
  IF i > Len(html) THEN [businesses |-> acc, keys |-> keys]
  ELSE IF "g_0" \notin html[i].classes THEN EachPages1(html, i + 1, p, acc, keys)
  ELSE IF "company_ad" \in html[i].classes THEN EachPages1(html, i + 1, p, acc, keys)
  ELSE IF CheckedKey("pages1", html[i].name, html[i].address) \in keys
    THEN EachPages1(html, i + 1, p, acc, keys)
  ELSE EachPages1(html, i + 1, p, acc, keys)

Pages2Business(el, p) ==
  [name |-> el.name, address |-> el.address, phone |-> el.phone,
   imageUrl |-> IF imageUrlOf(el) = "" THEN Null ELSE ToAbsolute(imageUrlOf(el)),
   verified |-> el.badge, sourcePage |-> p, dateScraped |-> Now]

\* scrapePages of part_002, lines 56-104: $('.company.with_img'), the key is
\* the name; an exception in the item is caught and logged.
RECURSIVE EachPages2(_, _, _, _, _)
EachPages2(html, i, p, acc, keys) ==
  IF i > Len(html) THEN [businesses |-> acc, keys |-> keys]
  ELSE IF "with_img" \notin html[i].classes THEN EachPages2(html, i + 1, p, acc, keys)
  ELSE IF "company_ad" \in html[i].classes THEN EachPages2(html, i + 1, p, acc, keys)
  ELSE IF html[i].name \in keys THEN EachPages2(html, i + 1, p, acc, keys)
  ELSE IF imageUrlOf(html[i]) = Thrown THEN EachPages2(html, i + 1, p, acc, keys)
  ELSE IF Accepts(Pages2Business(html[i], p))
    THEN EachPages2(html, i + 1, p, Pushed(acc, Pages2Business(html[i], p)),
                    Remembered(keys, html[i].name))
  ELSE EachPages2(html, i + 1, p, acc, keys)

Each(html, p, acc, keys) ==
  IF program = "category" THEN EachCategory(html, 1, p, acc, keys)
  ELSE IF program = "pages1" THEN EachPages1(html, 1, p, acc, keys)
  ELSE EachPages2(html, 1, p, acc, keys)

\* new Set(previousBusinesses.map(...)): part_001 line 188 (name|address),
\* part_001 line 49 and part_002 line 40 (name)
KeySetOf(prog, records) ==
  IF prog = "category"
  THEN {duplicateKey(records[i].name, records[i].address) : i \in DOMAIN records}
  ELSE {records[i].name : i \in DOMAIN records}

StoreUrl(p) ==
  IF program = "category" THEN CategoryPageUrl(baseUrl, p) ELSE PageUrl(baseUrl, p)

StoreError(p, msg) == [page |-> p, url |-> StoreUrl(p), error |-> msg]

\* errors.length > 5 && errors.slice(-5).every(e => e.error.includes('404'))
StopsEarly(errs) ==
  /\ Len(errs) > ConsecutiveErrorWindow
  /\ \A i \in (Len(errs) - ConsecutiveErrorWindow + 1)..Len(errs) :
       errs[i].error = NotFound

\* stats of the result: part_001 147-154 and 327-335, part_002 140-147
StoreStats(all, errs, combined) ==
  [totalPagesAttempted |-> endPage - startPage + 1,
   successfulPages |-> (endPage - startPage + 1) - Len(errs),
   failedPages |-> Len(errs),
   newBusinessesScraped |-> Len(all),
   totalBusinessesSaved |-> Len(combined),
   csvFile |-> csvFilename]
  @@ (IF program = "category" THEN [category |-> categoryName] ELSE <<>>)

\* Mutant: the write adds the records to those of the file.
Appended(old, new) == old \o new

\* fs.writeFileSync(filePath, csvData) replaces the file.
Rewritten(old, new) == new

\* What is remembered of a run that is over.
RunRecord(out, status, new, total, before) ==
  [program |-> program, body |-> req, file |-> csvFilename, outcome |-> out,
   status |-> status, new |-> new, total |-> total, before |-> before]

\* The end of the run (part_001 299-336, part_002 114-148) and the endpoint's
\* answer.  writable: whether fs.writeFileSync succeeds.
StoreFinish(prev, all, errs, out, writable) ==
  LET combined == prev \o all
      before == IF csvFilename \in DOMAIN files THEN Some(files[csvFilename]) ELSE None
      onDisk == IF csvFilename \in DOMAIN persisted THEN persisted[csvFilename] ELSE <<>>
  IN
  /\ pc' = "done"
  /\ IF writable THEN
       /\ files' =
            (csvFilename :> stringify(Rewritten(onDisk, combined), ColumnsOf(program)))
            @@ files
       /\ persisted' = (csvFilename :> Rewritten(onDisk, combined)) @@ persisted
       /\ writes' = writes + 1
       /\ res' = Success([businesses |-> all, totalBusinesses |-> Len(combined),
                          errors |-> errs, stats |-> StoreStats(all, errs, combined)])
       /\ history' = <<RunRecord(out, 200, Len(all), Len(combined), before)>>
     ELSE
       /\ res' = RunError(WriteErrorMsg)
       /\ history' = <<RunRecord(out, 500, Len(all), 0, before)>>
       /\ UNCHANGED <<files, persisted, writes>>

\* The page loop reaches page p with the lists all and errs: the GET for p is
\* issued, or the range is over (or the loop was left) and the run ends.
StoreLoop(p, prev, all, errs, out, left, disk) ==
  IF p <= endPage /\ ~left THEN
    /\ IssueGet(p)
    /\ issued' = issued \cup {p}
    /\ UNCHANGED <<res, files, persisted, writes, history>>
  ELSE
    /\ \E writable \in disk : StoreFinish(prev, all, errs, out, writable)
    /\ UNCHANGED <<page, issued>>
    /\ attempt' = 0 /\ lwCount' = 0 /\ brCount' = 0

\* part_001 serves /scrape and /scrape-category, part_002 serves /scrape.
ServerOf(prog) == IF prog = "pages2" THEN "part_002" ELSE "part_001"

\* app.post('/scrape') and app.post('/scrape-category') of part_001 (lines
\* 374-401, 419-456) and app.post('/scrape') of part_002 (lines 178-197).
\* runs: how many requests a behaviour lets through to the scrape function.
PostStore(prog, body, runs) ==
  /\ server = ServerOf(prog)
  /\ pc \in {"idle", "done"}
  /\ program' = prog
  /\ req' = body
  /\ FreshRun
  /\ NoLoad
  /\ IF MissingParameters(body) THEN
       Answer(BadRequest("Missing parameters")) /\ clock' = clock
     ELSE IF InvalidPageRange(body) THEN
       Answer(BadRequest("Invalid page range")) /\ clock' = clock
     ELSE IF prog = "category" /\ ~includesCategory(Val(body.baseUrl)) THEN
       Answer(BadRequest("Invalid URL")) /\ clock' = clock
     ELSE
       clock < runs /\ Answer(NoResponse) /\ clock' = clock + 1
  /\ UNCHANGED <<other, server, sessions, site, files, persisted, history>>

\* With the list records loaded, the key set is built and the page loop is
\* entered (part_001 48-52 and 187-191, part_002 39-42).
EntersLoop(records, disk) ==
  /\ previousBusinesses' = records
  /\ previousBusinessNames' = KeySetOf(program, records)
  /\ StoreLoop(startPage, records, <<>>, <<>>, <<>>, FALSE, disk)

\* The scrape function is called: the dataset is loaded and the page loop is
\* entered (part_001 39-57 and 158-205, part_002 33-47).
\* An exception that left loadPreviousBusinesses would leave the scrape
\* function too, and the endpoint's catch block would answer 500.
StoreBegin(disk) ==
  /\ server # "index.js" /\ pc = "accepted"
  /\ reads' = reads + 1
  /\ csvContent' =
       IF csvFilename \in DOMAIN files THEN Some(files[csvFilename]) ELSE None
  /\ IF loadPreviousBusinesses(csvFilename) = Thrown THEN
       /\ pc' = "done"
       /\ res' = RunError(ParseErrorMsg)
       /\ previousBusinesses' = <<>>
       /\ previousBusinessNames' = {}
       /\ UNCHANGED <<page, attempt, lwCount, brCount, issued, files, persisted,
                      writes, history>>
     ELSE
       EntersLoop(loadPreviousBusinesses(csvFilename), disk)
  /\ UNCHANGED <<other, server, program, req, allBusinesses, errors, pending, sessions, wait,
                 lwErr, outcome, site, clock>>

\* axios.get resolves: the page's listings are extracted, then the 2 s delay.
StoreGetOk(contents) ==
  /\ server # "index.js" /\ pc = "get"
  /\ \E html \in Served(page, contents) :
       /\ site' = Serve(page, html)
       /\ allBusinesses' = Each(html, page, allBusinesses, previousBusinessNames).businesses
       /\ previousBusinessNames' =
            Each(html, page, allBusinesses, previousBusinessNames).keys
  /\ CallOver("ok")
  /\ pc' = "delay"
  /\ wait' = PageDelay
  /\ UNCHANGED <<other, csvContent, server, program, req, res, page, errors, pending, sessions, issued,
                 reads, writes, files, persisted, previousBusinesses, clock, history>>

\* axios.get rejects: the page's error is recorded and the loop goes on at
\* once, unless scrapeCategoryPages leaves it.
StoreGetFail(err, disk) ==
  /\ server # "index.js" /\ pc = "get"
  /\ errors' = Append(errors, StoreError(page, err))
  /\ outcome' = (page :> "failed") @@ outcome
  /\ wait' = 0
  /\ StoreLoop(page + 1, previousBusinesses, allBusinesses,
               Append(errors, StoreError(page, err)),
               (page :> "failed") @@ outcome,
               program = "category" /\ StopsEarly(Append(errors, StoreError(page, err))),
               disk)
  /\ UNCHANGED <<other, csvContent, server, program, req, allBusinesses, pending, sessions, lwErr, reads,
                 site, previousBusinesses, previousBusinessNames, clock>>

\* Mutant: the file is saved after every page but the last, too.
StoreDelayDoneSaving(disk) ==
  /\ server # "index.js" /\ pc = "delay"
  /\ wait' = 0
  /\ IF page + 1 <= endPage THEN
       /\ IssueGet(page + 1)
       /\ issued' = issued \cup {page + 1}
       /\ files' = (csvFilename :> stringify(previousBusinesses \o allBusinesses,
                                             ColumnsOf(program))) @@ files
       /\ persisted' = (csvFilename :> previousBusinesses \o allBusinesses) @@ persisted
       /\ writes' = writes + 1
       /\ UNCHANGED <<res, history>>
     ELSE
       StoreLoop(page + 1, previousBusinesses, allBusinesses, errors, outcome, FALSE,
                 disk)
  /\ UNCHANGED <<other, csvContent, server, program, req, allBusinesses, errors, pending,
                 sessions, lwErr, outcome, reads, site, previousBusinesses,
                 previousBusinessNames, clock>>

\* The 2 s delay after a page is over.
StoreDelayDone(disk) ==
  /\ server # "index.js" /\ pc = "delay"
  /\ wait' = 0
  /\ StoreLoop(page + 1, previousBusinesses, allBusinesses, errors, outcome, FALSE,
               disk)
  /\ UNCHANGED <<other, csvContent, server, program, req, allBusinesses, errors, pending, sessions, lwErr,
                 outcome, reads, site, previousBusinesses, previousBusinessNames,
                 clock>>

(***************************************************************************)
(* SpecStore: the servers of part_001 and part_002, MaxRuns runs one after *)
(* the other over the same output directory.                               *)
(***************************************************************************)
StorePages == {<<NFull, NAddr2>>, <<NEmpty, NFull>>, <<NNoName, NBare, NAddr2>>}
StoreBodies ==
  {b \in Bodies({CategoryUrl}) : ~MissingParameters(b) /\ ~InvalidPageRange(b)}

InitStore ==
  /\ server \in {"part_001", "part_002"}
  /\ program = "none"
  /\ pc = "idle"
  /\ req = [baseUrl |-> None, startPage |-> None, endPage |-> None]
  /\ res = NoResponse
  /\ page = 0
  /\ attempt = 0
  /\ allBusinesses = <<>>
  /\ errors = <<>>
  /\ pending = None
  /\ sessions = 0
  /\ wait = 0
  /\ lwErr = ""
  /\ issued = {}
  /\ outcome = <<>>
  /\ lwCount = 0
  /\ brCount = 0
  /\ reads = 0
  /\ writes = 0
  /\ site = <<>>
  /\ files = <<>>
  /\ persisted = <<>>
  /\ previousBusinesses = <<>>
  /\ previousBusinessNames = {}
  /\ clock = 0
  /\ history = <<>>
  /\ csvContent = None
  /\ other = Waiting

NextStore ==
  \/ \E prog \in {"pages1", "category", "pages2"}, body \in StoreBodies :
       PostStore(prog, body, MaxRuns)
  \/ StoreBegin({TRUE})
  \/ StoreGetOk(StorePages)
  \/ StoreGetFail("timeout exceeded", {TRUE})
  \/ StoreDelayDone({TRUE})

SpecStore == InitStore /\ [][NextStore]_vars
(***************************************************************************)
(* Properties of the persisting scrapers, checked under SpecStore.         *)
(***************************************************************************)
PagesWith(how) == {p \in DOMAIN outcome : outcome[p] = how}

RangeOk(out) == \A p \in startPage..endPage : p \in DOMAIN out /\ out[p] = "ok"

\* C1: after any sequence of completed runs over the same dataset file, no
\* two rows of the file have the same name and the same address.
C1_UniqueKeys ==
  \A f \in DOMAIN files :
    \A i, j \in DOMAIN files[f].rows :
      i # j => <<files[f].rows[i][1], files[f].rows[i][2]>>
               # <<files[f].rows[j][1], files[f].rows[j][2]>>

\* A second run is over, it met the same listing on two pages it fetched,
\* and the file holds records.
C1_Witness ==
  /\ pc = "done" /\ clock = 2 /\ res.status = 200
  /\ program \in {"category", "pages2"}
  /\ startPage = 1 /\ endPage = 2 /\ RangeOk(outcome)
  /\ site[1] = <<NFull, NAddr2>> /\ site[2] = <<NEmpty, NFull>>
  /\ Len(files[csvFilename].rows) = 2

\* C2: a run that comes after a completed run of the same program over the
\* same page range, every page fetched both times, accepts no new record,
\* reports the total of the first run and leaves the file as it was.
C2_Step ==
  ( /\ pc # "done" /\ pc' = "done"
    /\ history # <<>>
    /\ history[1].status = 200 /\ history'[1].status = 200
    /\ history[1].program = program /\ history[1].body = req
    /\ RangeOk(history[1].outcome) /\ RangeOk(history'[1].outcome) )
  => /\ history'[1].new = 0
     /\ history'[1].total = history[1].total
     /\ files'[csvFilename] = files[csvFilename]

C2_Idempotence == [][C2_Step]_vars

\* C3: reading a file the persist step wrote gives back the records that
\* were written, field by field, verified as the boolean it was.
C3_RoundTrip ==
  \A f \in DOMAIN files :
    /\ Len(loadPreviousBusinesses(f)) = Len(persisted[f])
    /\ \A i \in DOMAIN persisted[f] :
         \A k \in {"name", "address", "phone", "imageUrl", "verified", "sourcePage",
                   "dateScraped"} :
           Get(loadPreviousBusinesses(f)[i], k) = persisted[f][i][k]

\* C4: in scrapePages of part_002 and scrapeCategoryPages of part_001 every
\* record of the run's list has a name and an address or a phone, and the
\* entries of errors are those of the pages whose fetch failed, one each.
C4_AcceptanceRule ==
  program \in {"pages2", "category"} =>
    /\ \A i \in DOMAIN allBusinesses :
         /\ allBusinesses[i].name # ""
         /\ allBusinesses[i].address # "" \/ allBusinesses[i].phone # ""
    /\ Len(errors) = Cardinality(PagesWith("failed"))
    /\ \A i \in DOMAIN errors : errors[i].page \in PagesWith("failed")

\* A page with a listing that has a name and neither address nor phone has
\* been processed: the other listing was accepted, nothing went to errors.
C4_Witness ==
  /\ program \in {"pages2", "category"} /\ pc = "delay"
  /\ site[page] = <<NEmpty, NFull>>
  /\ Len(allBusinesses) = 1 /\ allBusinesses[1].name = "A"
  /\ errors = <<>>
(***************************************************************************)
(* SpecLong: one run of scrapeCategoryPages over a range long enough for   *)
(* the loop to be left early (six errors, the last five of them 404).      *)
(***************************************************************************)
MaxLongPage == 8

LongPages == {<<NFull>>}
LongBodies ==
  {[baseUrl |-> Some(CategoryUrl), startPage |-> Some(1), endPage |-> Some(e)] :
     e \in 1..MaxLongPage}

InitLong == InitStore /\ server = "part_001"

NextLong ==
  \/ \E body \in LongBodies : PostStore("category", body, 1)
  \/ StoreBegin({TRUE})
  \/ StoreGetOk(LongPages)
  \/ \E err \in AxiosErrors : StoreGetFail(err, {TRUE})
  \/ StoreDelayDone({TRUE})

SpecLong == InitLong /\ [][NextLong]_vars

\* C6: when a run returns a result, its stats count what happened:
\* totalPagesAttempted the pages a fetch was issued for, failedPages the
\* pages whose fetch failed, successfulPages the pages whose fetch
\* succeeded, and the scraped-record count the records accepted in the run.
C6_StatsAreCounts ==
  (pc = "done" /\ res.status = 200) =>
    /\ res.result.stats.totalPagesAttempted = Cardinality(issued)
    /\ res.result.stats.failedPages = Cardinality(PagesWith("failed"))
    /\ res.result.stats.successfulPages = Cardinality(PagesWith("ok"))
    /\ Len(allBusinesses) =
         IF program = "index" THEN res.result.stats.businessesScraped
         ELSE res.result.stats.newBusinessesScraped
(***************************************************************************)
(* SpecApi: the endpoints of the three servers with every request body,    *)
(* the malformed ones included.                                            *)
(***************************************************************************)
ApiPages == {<<NFull>>}
ApiBodies == Bodies({LocationUrl, CategoryUrl})

InitApi ==
  /\ server \in {"index.js", "part_001", "part_002"}
  /\ program = "none"
  /\ pc = "idle"
  /\ req = [baseUrl |-> None, startPage |-> None, endPage |-> None]
  /\ res = NoResponse
  /\ page = 0
  /\ attempt = 0
  /\ allBusinesses = <<>>
  /\ errors = <<>>
  /\ pending = None
  /\ sessions = 0
  /\ wait = 0
  /\ lwErr = ""
  /\ issued = {}
  /\ outcome = <<>>
  /\ lwCount = 0
  /\ brCount = 0
  /\ reads = 0
  /\ writes = 0
  /\ site = <<>>
  /\ files = <<>>
  /\ persisted = <<>>
  /\ previousBusinesses = <<>>
  /\ previousBusinessNames = {}
  /\ clock = 0
  /\ history = <<>>
  /\ csvContent = None
  /\ other = Waiting

NextApi ==
  \/ \E body \in ApiBodies : PostScrape(body)
  \/ IndexBegin
  \/ IndexGetOk(ApiPages)
  \/ IndexGetFail("timeout exceeded")
  \/ IndexRetry
  \/ LaunchOk
  \/ LaunchFail
  \/ RenderOk(ApiPages)
  \/ RenderFail
  \/ CloseDone
  \/ IndexDelayDone
  \/ \E prog \in {"pages1", "category", "pages2"}, body \in ApiBodies :
       PostStore(prog, body, 1)
  \/ StoreBegin(BOOLEAN)
  \/ StoreGetOk(ApiPages)
  \/ StoreGetFail("timeout exceeded", BOOLEAN)
  \/ StoreDelayDone(BOOLEAN)

SpecApi == InitApi /\ [][NextApi]_vars

\* What C10 calls a malformed request: baseUrl, startPage or endPage missing,
\* or startPage < 1, or endPage < startPage.
Malformed(body) ==
  \/ body.baseUrl = None
  \/ body.startPage = None
  \/ body.endPage = None
  \/ /\ body.startPage # None /\ body.endPage # None
     /\ \/ Val(body.startPage) < 1
        \/ Val(body.endPage) < Val(body.startPage)

Arrived == program # "none"

\* C10: a POST /scrape or /scrape-category request whose baseUrl, startPage
\* or endPage is missing, or whose startPage < 1, or whose endPage <
\* startPage, is answered with status 400 (the endpoint is idle again), and
\* for it no GET was issued, no browser launched, no dataset read or written.
C10_MalformedRejected ==
  (Arrived /\ Malformed(req)) =>
    /\ pc = "idle" /\ res.status = 400
    /\ issued = {} /\ lwCount = 0 /\ brCount = 0
    /\ reads = 0 /\ writes = 0

\* /scrape-category has rejected a request with endPage < startPage while a
\* dataset of an earlier run is on disk.
C10_Witness ==
  /\ server = "part_001" /\ program = "category" /\ pc = "idle"
  /\ req.startPage = Some(2) /\ req.endPage = Some(1)
  /\ res.status = 400
  /\ DOMAIN files # {}
(***************************************************************************)
(* Properties of a run's end, checked under SpecApi.                       *)
(***************************************************************************)
\* C11: a run of scrapePages of index.js or of a scrape function of part_001
\* that is over with no record accepted is a failed run: the endpoint
\* answers 500, not a result.
C11_ZeroRecordsFails ==
  ( /\ pc = "done"
    /\ server \in {"index.js", "part_001"}
    /\ Len(allBusinesses) = 0 )
  => res.status = 500
(***************************************************************************)
(* Properties of the written dataset, checked under SpecStore.             *)
(***************************************************************************)
\* The place of a record's listing in the markup of the page it came from.
NodeOf(b) ==
  CHOOSE k \in DOMAIN site[b.sourcePage] :
    /\ site[b.sourcePage][k].name = b.name
    /\ site[b.sourcePage][k].address = b.address

\* C12: the dataset a run writes is the records it loaded, in their order,
\* followed by the records it accepted, in discovery order: by increasing
\* page, and within a page in document order.
C12_WrittenOrder ==
  (pc = "done" /\ res.status = 200) =>
    /\ persisted[csvFilename] = previousBusinesses \o allBusinesses
    /\ files[csvFilename] = stringify(previousBusinesses \o allBusinesses,
                                      ColumnsOf(program))
    /\ \A i, j \in DOMAIN allBusinesses :
         i < j =>
           \/ allBusinesses[i].sourcePage < allBusinesses[j].sourcePage
           \/ /\ allBusinesses[i].sourcePage = allBusinesses[j].sourcePage
              /\ NodeOf(allBusinesses[i]) < NodeOf(allBusinesses[j])

\* A run has written two records of page 1 and one of page 2.
C12_Witness ==
  /\ pc = "done" /\ res.status = 200
  /\ Len(allBusinesses) = 3
  /\ allBusinesses[1].sourcePage = 1 /\ allBusinesses[2].sourcePage = 1
  /\ allBusinesses[3].sourcePage = 2
  /\ Len(files[csvFilename].rows) = 3
\* C13: loadPreviousBusinesses never throws.  With the file absent, or with
\* the file there and the reading or parsing of it failing, the scrape
\* function gets an empty list and goes on to fetch the first page of the
\* range.
C13_Step ==
  (server # "index.js" /\ pc = "accepted") =>
    /\ ( \/ csvFilename \notin DOMAIN files
         \/ parse(files[csvFilename]) = Thrown ) => previousBusinesses' = <<>>
    /\ pc' = "get" /\ page' = startPage /\ issued' = {startPage}
    /\ res' = NoResponse

C13_LoadNeverThrows == [][C13_Step]_vars

\* The dataset file was there when the run began; the run is fetching.
C13_Witness ==
  /\ server # "index.js" /\ pc = "get" /\ page = startPage
  /\ csvFilename \in DOMAIN files
  /\ reads = 1 /\ previousBusinesses = <<>>
\* The run came to its final write and fs.writeFileSync threw.
WriteFailed ==
  /\ pc = "done" /\ writes = 0
  /\ program = "index" => Len(allBusinesses) > 0

\* C14: when the final write of the output file fails, the endpoint answers
\* with an error and no result, and the error is not the one of a run that
\* accepted no record.
C14_WriteFailureSurfaced ==
  WriteFailed =>
    /\ res.status = 500
    /\ res.error # NoBusinessesMsg

\* scrapeCategoryPages accepted a record and could not write the file.
C14_Witness ==
  /\ program = "category" /\ WriteFailed
  /\ Len(allBusinesses) > 0
  /\ res.status = 500
(***************************************************************************)
(* SpecRace: two requests to /scrape-category of part_001 in flight at the *)
(* same time.  A handler runs from one await to the next; at an await the  *)
(* event loop may resume the other request's handler.                      *)
(***************************************************************************)
Context ==
  [program |-> program, pc |-> pc, req |-> req, res |-> res, page |-> page,
   attempt |-> attempt, allBusinesses |-> allBusinesses, errors |-> errors,
   pending |-> pending, wait |-> wait, lwErr |-> lwErr, issued |-> issued,
   outcome |-> outcome, lwCount |-> lwCount, brCount |-> brCount, reads |-> reads,
   writes |-> writes, previousBusinesses |-> previousBusinesses,
   previousBusinessNames |-> previousBusinessNames, csvContent |-> csvContent]

\* The handler that was running waits; the other one goes on.
Switch ==
  /\ other # Context
  /\ other' = Context
  /\ program' = other.program
  /\ pc' = other.pc
  /\ req' = other.req
  /\ res' = other.res
  /\ page' = other.page
  /\ attempt' = other.attempt
  /\ allBusinesses' = other.allBusinesses
  /\ errors' = other.errors
  /\ pending' = other.pending
  /\ wait' = other.wait
  /\ lwErr' = other.lwErr
  /\ issued' = other.issued
  /\ outcome' = other.outcome
  /\ lwCount' = other.lwCount
  /\ brCount' = other.brCount
  /\ reads' = other.reads
  /\ writes' = other.writes
  /\ previousBusinesses' = other.previousBusinesses
  /\ previousBusinessNames' = other.previousBusinessNames
  /\ csvContent' = other.csvContent
  /\ UNCHANGED <<server, sessions, site, files, persisted, clock, history>>

RacePages == {<<NFull, NAddr2>>, <<NNoName, NBare, NAddr2>>}

InitRace == InitStore /\ server = "part_001"

\* One request for each of the two handlers.
NextRace ==
  \/ \E body \in StoreBodies : PostStore("category", body, 2)
  \/ StoreBegin({TRUE})
  \/ StoreGetOk(RacePages)
  \/ StoreGetFail("timeout exceeded", {TRUE})
  \/ StoreDelayDone({TRUE})
  \/ Switch

SpecRace == InitRace /\ [][NextRace]_vars

KeysOf(records) == {<<records[i].name, records[i].address>> : i \in DOMAIN records}

\* Both runs read the dataset before either wrote it, and both have written.
LoadedBeforeEitherWrote(mine, theirs) ==
  /\ mine.csvContent = None /\ theirs.csvContent = None
  /\ mine.req.baseUrl = theirs.req.baseUrl
  /\ mine.res.status = 200 /\ theirs.res.status = 200

\* C15: two runs on the same dataset file that both loaded it before either
\* wrote it: once both have written, the file holds what the later writer
\* loaded and accepted, and none of the records only the earlier writer
\* accepted.
C15_Step ==
  ( /\ pc # "done" /\ pc' = "done" /\ other' = other
    /\ other.pc = "done"
    /\ LoadedBeforeEitherWrote([csvContent |-> csvContent, req |-> req, res |-> res'],
                               other) )
  => /\ persisted'[csvFilename] = previousBusinesses \o allBusinesses
     /\ KeysOf(persisted'[csvFilename]) \cap
          (KeysOf(other.allBusinesses) \ KeysOf(allBusinesses)) = {}

C15_LastWriterWins == [][C15_Step]_vars

\* Both have written; a record the earlier writer accepted is not in the
\* file.
C15_Witness ==
  /\ pc = "done" /\ other.pc = "done"
  /\ LoadedBeforeEitherWrote(Context, other)
  /\ KeysOf(other.allBusinesses) \ KeysOf(persisted[csvFilename]) # {}
  /\ KeysOf(allBusinesses) # {}
(***************************************************************************)
(* Properties of the extraction of a page.                                 *)
(***************************************************************************)
\* The listing nodes the extractor of index.js visits and can read.
IndexReadable(el) ==
  /\ "with_img" \in el.classes /\ "company_ad" \notin el.classes
  /\ imageUrlOf(el) # Thrown

HasRecord(list, el, p) ==
  \E i \in DOMAIN list :
    /\ list[i].sourcePage = p
    /\ list[i].name = el.name /\ list[i].address = el.address

\* C16: in scrapePages of index.js and scrapeCategoryPages of part_001 a
\* listing node whose extraction fails does not end the extraction of its
\* page: the page gets no page-level error for it, and every other listing
\* node of the page is processed.
C16_ItemFailureIsolated ==
  \A p \in DOMAIN outcome :
    (program \in {"index", "category"} /\ outcome[p] = "ok") =>
      /\ ErrorsFor(p) = {}
      /\ program = "index" =>
           \A k \in DOMAIN site[p] :
             IndexReadable(site[p][k]) => HasRecord(allBusinesses, site[p][k], p)
\* The listing nodes the extractors of the persisting scrapers visit, read
\* without an exception and find acceptable.
StoreSelected(el) ==
  /\ "company_ad" \notin el.classes
  /\ IF program = "category" THEN "g_0" \in el.classes
     ELSE "with_img" \in el.classes /\ imageUrlOf(el) # Thrown
  /\ el.name # "" /\ (el.address # "" \/ el.phone # "")

\* C17: two listings with the same name and different addresses are two
\* records: of every page a run of scrapePages of part_002 or of
\* scrapeCategoryPages has fetched, each acceptable listing is in the list
\* the run loaded or in the list it accepted, under its name and address.
C17_AddressDistinguishes ==
  \A p \in DOMAIN outcome :
    (program \in {"pages2", "category"} /\ outcome[p] = "ok") =>
      \A k \in DOMAIN site[p] :
        StoreSelected(site[p][k]) =>
          \E i \in DOMAIN (previousBusinesses \o allBusinesses) :
            /\ (previousBusinesses \o allBusinesses)[i].name = site[p][k].name
            /\ (previousBusinesses \o allBusinesses)[i].address = site[p][k].address
(***************************************************************************)
(* SpecKeys: a scrape function of part_001 or part_002 from the moment     *)
(* loadPreviousBusinesses has returned a list of records: it builds the    *)
(* key set from the list and scrapes the range.                            *)
(***************************************************************************)
\* A record of an earlier run, as the scrapers build them.
Earlier(el) ==
  [name |-> el.name, address |-> el.address, phone |-> el.phone, imageUrl |-> "",
   verified |-> el.badge, sourcePage |-> 1, dateScraped |-> "T0"]

LoadedLists ==
  {<<>>, <<Earlier(NFull)>>, <<Earlier(NAddr2)>>, <<Earlier(NFull), Earlier(NBare)>>}

InitKeys ==
  /\ server \in {"part_001", "part_002"}
  /\ program \in {"pages1", "category", "pages2"}
  /\ server = ServerOf(program)
  /\ pc = "loaded"
  /\ req \in StoreBodies
  /\ res = NoResponse
  /\ page = 0
  /\ attempt = 0
  /\ allBusinesses = <<>>
  /\ errors = <<>>
  /\ pending = None
  /\ sessions = 0
  /\ wait = 0
  /\ lwErr = ""
  /\ issued = {}
  /\ outcome = <<>>
  /\ lwCount = 0
  /\ brCount = 0
  /\ reads = 1
  /\ writes = 0
  /\ site = <<>>
  /\ previousBusinesses \in LoadedLists
  /\ previousBusinessNames = {}
  /\ persisted = (FileOf(program, Val(req.baseUrl)) :> previousBusinesses)
  /\ files = (FileOf(program, Val(req.baseUrl))
                :> stringify(previousBusinesses, ColumnsOf(program)))
  /\ csvContent = Some(stringify(previousBusinesses, ColumnsOf(program)))
  /\ clock = 1
  /\ history = <<>>
  /\ other = Waiting

\* new Set(previousBusinesses.map(...)) and the entry into the page loop.
KeysBuilt(disk) ==
  /\ server # "index.js" /\ pc = "loaded"
  /\ EntersLoop(previousBusinesses, disk)
  /\ UNCHANGED <<other, csvContent, server, program, req, allBusinesses, errors,
                 pending, sessions, wait, lwErr, outcome, reads, site, clock>>

NextKeys ==
  \/ KeysBuilt({TRUE})
  \/ StoreGetOk(StorePages)
  \/ StoreGetFail("timeout exceeded", {TRUE})
  \/ StoreDelayDone({TRUE})

SpecKeys == InitKeys /\ [][NextKeys]_vars

\* C18: the key set built from the loaded records holds, for each of them,
\* the key the duplicate check computes for a listing with the record's
\* name and address, and nothing else.
C18_Step ==
  pc = "loaded" =>
    previousBusinessNames' =
      {CheckedKey(program, previousBusinesses[i].name, previousBusinesses[i].address) :
         i \in DOMAIN previousBusinesses}

NotFoundAt(q) ==
  \E i \in DOMAIN errors : errors[i].page = q /\ errors[i].error = NotFound

\* The ConsecutiveErrorWindow pages ending at p all failed with a 404.
WindowNotFound(p) ==
  /\ p - ConsecutiveErrorWindow + 1 >= startPage
  /\ \A q \in (p - ConsecutiveErrorWindow + 1)..p : NotFoundAt(q)

\* C19: once five consecutive pages have all failed with a 404, no page after
\* the fifth of them is fetched.
C19_StopsAfterFive ==
  (program = "category" /\ pc \notin {"idle", "accepted"}) =>
    \A p \in issued : WindowNotFound(p) => \A q \in issued : q <= p

\* C20: a run that ends without having fetched endPage has just seen five
\* consecutive pages fail with a 404, the last of them the last page fetched.
C20_OnlyEarlyExit ==
  (program = "category" /\ pc = "done" /\ issued # {} /\ endPage \notin issued) =>
    \E p \in issued : (\A q \in issued : q <= p) /\ WindowNotFound(p)
(***************************************************************************)
(* Further properties of the persisting scrapers, checked under SpecStore. *)
(***************************************************************************)
\* The dedup key of an accepted record, as the running scraper computes it.
KeyOf(b) == CheckedKey(program, b.name, b.address)

\* C21: in scrapeCategoryPages of part_001 and scrapePages of part_002 no
\* two records accepted by the run have the same dedup key, whether their
\* listings were on one page or on two, and the key of every accepted record
\* is in the key set.
C21_NoRepeatInRun ==
  program \in {"category", "pages2"} =>
    /\ \A i, j \in DOMAIN allBusinesses :
         i # j => KeyOf(allBusinesses[i]) # KeyOf(allBusinesses[j])
    /\ \A i \in DOMAIN allBusinesses : KeyOf(allBusinesses[i]) \in previousBusinessNames

\* The first run has processed two pages that both hold the listing A at x:
\* it was accepted from page 1 only.
C21_Witness ==
  /\ program \in {"category", "pages2"} /\ clock = 1 /\ pc = "delay" /\ page = 2
  /\ FetchOk(1) /\ FetchOk(2)
  /\ site[1] = <<NFull, NAddr2>> /\ site[2] = <<NEmpty, NFull>>
  /\ allBusinesses # <<>>
  /\ \A i \in DOMAIN allBusinesses : allBusinesses[i].sourcePage = 1
(***************************************************************************)
(* Further properties of src/index.js, checked under Spec.                 *)
(***************************************************************************)
\* C22: in scrapePages of index.js a listing without a name, or with neither
\* address nor phone, is dropped: no record of the run's list, and no row of
\* a written file, has an empty name or an empty address and an empty phone.
C22_IndexDropsIncomplete ==
  program = "index" =>
    /\ \A i \in DOMAIN allBusinesses : Accepts(allBusinesses[i])
    /\ \A f \in DOMAIN files :
         \A r \in DOMAIN files[f].rows :
           /\ files[f].rows[r][1] # ""
           /\ files[f].rows[r][2] # "" \/ files[f].rows[r][3] # ""

\* C23: scrapePage waits min(1000 * 2^n, 30000) ms after its lightweight
\* attempt n failed, n = 1, 2 (2000 ms, then twice that), never more than
\* 30000 ms; attempt n+1 is issued only out of that wait; the browser
\* fallback starts with no wait after the third failure.
C23_State ==
  program = "index" =>
    /\ pc = "backoff" =>
         /\ attempt \in {1, 2}
         /\ wait = Min(1000 * Pow2(attempt), 30000)
         /\ wait = (IF attempt = 1 THEN 2000 ELSE 2 * 2000)
         /\ wait <= 30000
    /\ InBrowser => wait = 0

C23_Step ==
  program = "index" =>
    /\ (attempt >= 1 /\ attempt' = attempt + 1) =>
         (pc = "backoff" /\ wait > 0 /\ wait' = 0)
    /\ (pc = "get" /\ lwErr' # "" /\ attempt = 3) => (pc' = "launch" /\ wait' = 0)
    /\ (pc = "get" /\ lwErr' # "" /\ attempt < 3) => pc' = "backoff"

C23_Backoff == []C23_State /\ [][C23_Step]_vars

\* The second lightweight attempt has failed: scrapePage waits 4000 ms.
C23_Witness ==
  program = "index" /\ pc = "backoff" /\ attempt = 2 /\ wait = 4000 /\ lwCount = 2

\* A request for the current page is under way: a lightweight GET, the wait
\* before the next one, or the browser session.
Fetching == pc \in {"get", "backoff", "launch", "render", "closing"}

\* C24: a run of scrapePages of index.js requests the pages of its range one
\* after the other in increasing order: the pages requested so far are
\* startPage..page, all but the current one are over, and the first request
\* for page k+1 is issued only when page k's fetch (retries and fallback
\* included) and extraction are over and its delay has elapsed.
C24_State ==
  (program = "index" /\ pc \notin {"idle", "accepted"}) =>
    /\ issued = startPage..page
    /\ DOMAIN outcome = (IF Fetching THEN issued \ {page} ELSE issued)

C24_Step ==
  (program = "index" /\ issued' # issued) =>
    /\ issued' = issued \cup {page'}
    /\ pc' = "get" /\ lwCount' = 1
    /\ IF issued = {} THEN page' = startPage
       ELSE /\ pc \in {"delay", "errdelay"} /\ wait > 0
            /\ page' = page + 1
            /\ page \in DOMAIN outcome
            /\ lwCount = 0 /\ brCount = 0 /\ sessions = 0

C24_Sequential == []C24_State /\ [][C24_Step]_vars

\* Page 2 is requested after page 1 went through its three attempts and the
\* browser fallback and failed.
C24_Witness ==
  /\ program = "index" /\ pc = "get" /\ page = 2 /\ issued = {1, 2}
  /\ FetchFailed(1) /\ Len(errors) = 1

\* getRequestHeaders(pageNumber), index.js 30-65: the User-Agent and the
\* Referer are picked by the page number; the other headers are fixed.
userAgents ==
  << "Chrome/120 Windows", "Chrome/120 Macintosh", "Firefox/115 Windows",
     "Firefox/115 Macintosh", "Safari/16.6 Macintosh", "Edg/120 Windows" >>

referers ==
  << "https://www.google.com/", "https://www.bing.com/",
     "https://search.yahoo.com/", "https://duckduckgo.com/" >>

getRequestHeaders(pageNumber) ==
  [UserAgent |-> userAgents[(pageNumber % Len(userAgents)) + 1],
   Referer |-> referers[(pageNumber % Len(referers)) + 1]]

\* A lightweight GET is issued in this step, and it is not the first of the
\* run: the one before it was for the page in page (scrapePage passes
\* pageNumber on to its retries, and the loop goes from page to page + 1).
IssuesNextGet == program = "index" /\ pc # "get" /\ pc' = "get" /\ issued # {}

\* C25: two consecutive lightweight requests of a run of scrapePages of
\* index.js carry different User-Agent headers, a retry for the same page
\* included.
C25_Step ==
  IssuesNextGet =>
    getRequestHeaders(page').UserAgent # getRequestHeaders(page).UserAgent

C25_AgentsRotate == [][C25_Step]_vars

\* The handler of a persisting scraper is inside its scrape function.
Persisting == program \in {"pages1", "category", "pages2"}
InRun == Persisting /\ pc \notin {"idle", "accepted"}

\* What the dataset file of the run holds now.
OnDisk == IF csvFilename \in DOMAIN files THEN Some(files[csvFilename]) ELSE None

\* C26: a run of a persisting scraper loads its dataset once, before the
\* first page is requested, and writes the file once, when the page loop is
\* over; from the load to that write the file is what the load found.
C26_State ==
  InRun =>
    /\ reads = 1
    /\ pc # "done" => (writes = 0 /\ OnDisk = csvContent)
    /\ (pc = "done" /\ res.status = 200) => writes = 1

C26_Step ==
  /\ reads' > reads => (pc = "accepted" /\ issued' = {startPage} /\ outcome = <<>>)
  /\ (Persisting /\ (writes' > writes \/ files' # files)) =>
       /\ writes' = writes + 1
       /\ pc' = "done"
       /\ DOMAIN outcome' = issued'
       /\ \A f \in DOMAIN files : f # csvFilename => files'[f] = files[f]

C26_ReadOnceWriteOnce == []C26_State /\ [][C26_Step]_vars

\* A second run over a file the first run wrote is over, two pages fetched.
C26_Witness ==
  /\ Persisting /\ pc = "done" /\ res.status = 200 /\ clock = 2
  /\ csvContent # None
  /\ startPage = 1 /\ endPage = 2 /\ RangeOk(outcome)
  /\ reads = 1 /\ writes = 1
(***************************************************************************)
(* SpecFiles: the server of part_001, three runs one after the other over  *)
(* page 1: /scrape, and /scrape-category for two categories.               *)
(***************************************************************************)
FilePages == {<<NFull, NAddr2>>, <<NEmpty, NFull>>}
FileBodies ==
  {[baseUrl |-> Some(u), startPage |-> Some(1), endPage |-> Some(1)] :
     u \in {CategoryUrl, CityUrl}}

InitFiles == InitStore /\ server = "part_001"

NextFiles ==
  \/ \E prog \in {"pages1", "category"}, body \in FileBodies : PostStore(prog, body, 3)
  \/ StoreBegin({TRUE})
  \/ StoreGetOk(FilePages)
  \/ StoreGetFail("timeout exceeded", {TRUE})
  \/ StoreDelayDone({TRUE})

SpecFiles == InitFiles /\ [][NextFiles]_vars

\* The file named after the category of the request.
OwnFile == IF baseUrl = CategoryUrl THEN "hotels.csv" ELSE "others.csv"

\* C27: a step of a category run creates or changes no file but the one
\* named after its category, and what its load reads is that file.
C27_Step ==
  program = "category" =>
    /\ DOMAIN files' \subseteq DOMAIN files \cup {OwnFile}
    /\ \A f \in DOMAIN files : f # OwnFile => (f \in DOMAIN files' /\ files'[f] = files[f])
    /\ reads' > reads =>
         csvContent' = (IF OwnFile \in DOMAIN files THEN Some(files[OwnFile]) ELSE None)

C27_OwnFileOnly == [][C27_Step]_vars

\* A run for the category hotels is over; the default dataset and the file
\* of the category others were there before it.
C27_Witness ==
  /\ program = "category" /\ pc = "done" /\ res.status = 200 /\ clock = 3
  /\ baseUrl = CategoryUrl
  /\ DOMAIN files = {"all_businesses.csv", "others.csv", "hotels.csv"}
  /\ Len(files["others.csv"].rows) > 0
  /\ Len(files["hotels.csv"].rows) > 0

\* The rows of the run's dataset file.
RowsOf(fs) == IF csvFilename \in DOMAIN fs THEN Range(fs[csvFilename].rows) ELSE {}

\* C28: when a run of a persisting scraper completes, every row its dataset
\* file held before the run is still in the file, cell by cell.
C28_Step ==
  (Persisting /\ pc # "done" /\ pc' = "done" /\ res'.status = 200) =>
    RowsOf(files) \subseteq RowsOf(files')

C28_RecordsKept == [][C28_Step]_vars

\* C29: in scrapePages of index.js a page either succeeded or failed: no
\* record of the run's list has as its sourcePage the page of an entry of
\* errors.
C29_OneOutcomePerPage ==
  program = "index" =>
    \A i \in DOMAIN allBusinesses, j \in DOMAIN errors :
      allBusinesses[i].sourcePage # errors[j].page
(***************************************************************************)
(* SpecLive: the server of src/index.js when every request it issues, every*)
(* browser call and every timer it waits for eventually returns, fails or  *)
(* fires.                                                                  *)
(***************************************************************************)
\* A page whose listings are all extracted, and one whose listing throws.
LivePages == {<<NFull>>, <<NBare>>}

Running ==
  \/ IndexBegin
  \/ IndexGetOk(LivePages)
  \/ \E err \in AxiosErrors : IndexGetFail(err)
  \/ IndexRetry
  \/ LaunchOk
  \/ LaunchFail
  \/ RenderOk(LivePages)
  \/ RenderFail
  \/ CloseDone
  \/ IndexDelayDone

NextLive ==
  \/ \E body \in Bodies({LocationUrl}) : PostScrape(body)
  \/ Running

SpecLive == Init /\ [][NextLive]_vars /\ WF_vars(Running)

\* C30: a run of scrapePages of index.js terminates: once the request is
\* accepted the endpoint eventually answers, with the result (200) or with
\* what the run threw (500); no call of scrapePage, one per page, issues
\* more than 3 lightweight requests or starts more than 1 browser session.
C30_Bounded ==
  program = "index" => (lwCount <= 3 /\ brCount <= 1 /\ sessions <= 1)

C30_Terminates ==
  /\ []C30_Bounded
  /\ (pc = "accepted") ~> (pc = "done" /\ res.status \in {200, 500})

\* The run is over after a page that took three lightweight requests and a
\* browser session, and it threw.
C30_Witness ==
  /\ program = "index" /\ pc = "done" /\ res.status = 500
  /\ startPage < endPage
  /\ \A k \in startPage..endPage : FetchFailed(k)

====
